---- MODULE Spec2Model ----
(***************************************************************************)
(* absence_bot (src/src/main.rs): a Discord bot that announces departing   *)
(* members in a per-guild notification channel.  The registry is the       *)
(* sqlite table notify_channel(guild_id, channel_id), both columns decimal *)
(* text.  Every event is handled by its own task; a task is suspended at   *)
(* every await (database statement, send, reply, channel listing), and     *)
(* tasks of different events interleave at those points.                   *)
(***************************************************************************)
EXTENDS Integers, Sequences, FiniteSets, TLC

(* ------------------------------ bounds --------------------------------- *)

\* Number of events handled (each by its own task, all possibly concurrent).
NumTasks == 2

\* Width of an identifier in bits (u64 in the code, scaled down).
IdBits == 4

RECURSIVE Pow2(_)
Pow2(n) == IF n = 0 THEN 1 ELSE 2 * Pow2(n - 1)

\* u64::MAX at the model's width.
IdMax == Pow2(IdBits) - 1

Tasks == 1..NumTasks

\* Guild ids the gateway delivers; NoGuild is Message::guild_id = None.
NoGuild == 0
Guilds == {1, IdMax}

\* Channel ids that exist on the platform side.
Channels == {2, IdMax}

\* The departing user of a member-removal event.
Users == {[name |-> "Alice", id |-> 12]}
NoUser == [name |-> "", id |-> 0]

(* ------------------------------- text ---------------------------------- *)
\* A string is a sequence of one-character strings.

DigitChars == <<"0", "1", "2", "3", "4", "5", "6", "7", "8", "9">>

IsDigit(ch) == \E i \in 1..10 : DigitChars[i] = ch

DigitVal(ch) == (CHOOSE i \in 1..10 : DigitChars[i] = ch) - 1

RECURSIVE Format(_)

\* A signed encoding that loses the top bit of the identifier.
Format_SignBitDropped(n) ==
    LET m == n % Pow2(IdBits - 1)
    IN  IF m < 10 THEN <<DigitChars[m + 1]>>
        ELSE Append(Format(m \div 10), DigitChars[(m % 10) + 1])

\* format!("{}", n) of an unsigned integer: its decimal digits.
Format(n) ==
    IF n < 10 THEN <<DigitChars[n + 1]>>
    ELSE Append(Format(n \div 10), DigitChars[(n % 10) + 1])

\* str::parse::<u64>: an optional leading "+", then one or more decimal
\* digits, accumulated with checked arithmetic.  <<"Err">> on an empty
\* string, a sign alone, a character that is no digit, or overflow.
RECURSIVE ParseDigits(_, _)
ParseDigits(s, acc) ==
    IF s = <<>> THEN <<"Ok", acc>>
    ELSE IF ~IsDigit(Head(s)) THEN <<"Err">>
    ELSE IF acc * 10 + DigitVal(Head(s)) > IdMax THEN <<"Err">>
    ELSE ParseDigits(Tail(s), acc * 10 + DigitVal(Head(s)))

ParseU64(s) ==
    IF s = <<>> THEN <<"Err">>
    ELSE LET body == IF Head(s) = "+" THEN Tail(s) ELSE s
         IN  IF body = <<>> THEN <<"Err">> ELSE ParseDigits(body, 0)

\* str::strip_prefix: the rest of s after p, or <<"None">>.
StripPrefix(s, p) ==
    IF Len(s) >= Len(p) /\ SubSeq(s, 1, Len(p)) = p
    THEN <<"Some", SubSeq(s, Len(p) + 1, Len(s))>>
    ELSE <<"None">>

COMMAND_PREFIX == <<"!", "a", "b", "s", " ">>
NOTIFCHAN == <<"n", "o", "t", "i", "f", "c", "h", "a", "n", " ">>

\* The texts of the replies and sends (the usage text without its backquotes).
USAGE == "bad command format, use: !abs  notifchan <channelid>"
CID_INVALID == "channel id invalid"
CONFIRMATION == <<"This is now the channel that will be notified when someone leaves.">>
INACCESSIBLE == "I can't find or don't have access to that channel"

\* An announcement that leaves the identifier out.
LeftText_NoId(user) == <<user.name, " has left the server">>

\* format!("{} ({}) has left the server", user.name, user.id), in pieces.
LeftText(user) == <<user.name, " (">> \o Format(user.id) \o <<") has left the server">>

\* ChannelId::new(n): the id, or a panic on 0 (ids are NonZeroU64).
ChannelIdNew(n) == IF n = 0 THEN <<"Panic">> ELSE <<"Ok", n>>

\* A parser that answers every text that is no well-formed command with the
\* usage error, the non-commands included.
parse_set_channel_NoIgnore(content) ==
    LET c1 == StripPrefix(content, COMMAND_PREFIX)
        c2 == IF c1[1] = "None" THEN c1 ELSE StripPrefix(c1[2], NOTIFCHAN)
    IN  IF c2[1] = "None" THEN <<"Err", USAGE>>
        ELSE IF c2[2] = <<"0">> THEN <<"Err", CID_INVALID>>
        ELSE LET n == ParseU64(c2[2])
             IN  IF n[1] = "Err" THEN <<"Err", CID_INVALID>>
                 ELSE ChannelIdNew(n[2])

\* Handler::parse_set_channel: <<"None">> (not a command), <<"Err", text>>,
\* <<"Ok", channel id>>, or <<"Panic">> out of ChannelId::new.
parse_set_channel(content) ==
    LET c1 == StripPrefix(content, COMMAND_PREFIX)
    IN  IF c1[1] = "None" THEN <<"None">>
        ELSE LET c2 == StripPrefix(c1[2], NOTIFCHAN)
             IN  IF c2[1] = "None" THEN <<"Err", USAGE>>
                 ELSE IF c2[2] = <<"0">> THEN <<"Err", CID_INVALID>>
                 ELSE LET n == ParseU64(c2[2])
                      IN  IF n[1] = "Err" THEN <<"Err", CID_INVALID>>
                          ELSE ChannelIdNew(n[2])

\* The message texts the gateway delivers.
CommandArgs ==
    {<<"0">>, <<"0", "0">>, <<"a", "b", "c">>, <<>>} \cup {Format(c) : c \in Channels}

Contents ==
    {<<"h", "i">>,
     <<"!", "a", "b", "s">> \o NOTIFCHAN \o <<"2">>,
     COMMAND_PREFIX \o <<"f", "o", "o">>}
        \cup {COMMAND_PREFIX \o NOTIFCHAN \o a : a \in CommandArgs}

(* ----------------------------- registry -------------------------------- *)
\* A row of notify_channel; the table is the sequence of its rows in
\* insertion (rowid) order.

Row(g, c) == [guild_id |-> g, channel_id |-> c]

\* The rows "WHERE guild_id = ?" selects.
RowsWhere(rows, g) == SelectSeq(rows, LAMBDA r : r.guild_id = g)

\* A table without a key on guild_id.
KeyConflict_NoKey(rows, row) == FALSE

\* The table's key: the migration declares notify_channel keyed by guild
\* id, so an INSERT of a second row for a guild is rejected.
KeyConflict(rows, row) == RowsWhere(rows, row.guild_id) # <<>>

\* A DELETE that lost its WHERE clause.
DeleteWhere_All(rows, g) == <<>>

\* DELETE FROM notify_channel WHERE guild_id = ?
DeleteWhere(rows, g) == SelectSeq(rows, LAMBDA r : r.guild_id # g)

\* INSERT INTO notify_channel (guild_id, channel_id) VALUES(?, ?):
\* the new table, or <<"Err">> when the table rejects the row.
InsertRow(rows, row) ==
    IF KeyConflict(rows, row) THEN <<"Err">> ELSE <<"Ok", Append(rows, row)>>

\* An INSERT whose two binds are swapped.
NewRow_Swapped(guild_id, channel_id) == Row(Format(channel_id), Format(guild_id))

\* The row set_notify_channel binds to its INSERT.
NewRow(guild_id, channel_id) == Row(Format(guild_id), Format(channel_id))

\* A lookup whose SELECT lost its WHERE clause: any guild's row answers.
get_notify_channel_AnyGuild(rows, guild_id, io) ==
    IF ~io THEN <<"Err", "Io">>
    ELSE IF rows = <<>> THEN <<"Err", "RowNotFound">>
    ELSE LET n == ParseU64(rows[1].channel_id)
         IN  IF n[1] = "Err" THEN <<"Panic">> ELSE ChannelIdNew(n[2])

\* Handler::get_notify_channel on table rows: fetch_one's first selected
\* row, its channel_id parsed (expect) and wrapped (ChannelId::new).
\* <<"Err", e>> is the wrapped sqlx error: the store failing (~io), or no
\* row selected.
get_notify_channel(rows, guild_id, io) ==
    LET sel == RowsWhere(rows, Format(guild_id))
    IN  IF ~io THEN <<"Err", "Io">>
        ELSE IF sel = <<>> THEN <<"Err", "RowNotFound">>
        ELSE LET n == ParseU64(sel[1].channel_id)
             IN  IF n[1] = "Err" THEN <<"Panic">> ELSE ChannelIdNew(n[2])

(* ------------------------------- state --------------------------------- *)

VARIABLES
    db,         \* the rows of notify_channel
    tasks,      \* per event task: position, event, locals, calls made;
                \* conc: its set call overlapped another set of its guild
    everBound,  \* guild -> whether a binding of it was ever stored
    main,       \* position of main()
    migrated    \* whether the database file holds the notify_channel schema

vars == <<db, tasks, everBound, main, migrated>>

startup == <<main, migrated>>

IdleTask ==
    [pc |-> "idle", kind |-> "none", gid |-> NoGuild, content |-> <<>>,
     user |-> NoUser, cid |-> 0, sends |-> <<>>, replies |-> <<>>,
     outcome |-> "none", conc |-> FALSE]

\* A stored channel_id that is no decimal u64 (a damaged file, or a file
\* written with another encoding of the identifiers).
CorruptChannelId == <<"-", "1">>

\* The tables the database file can hold at startup: none yet, a binding
\* left by an earlier run, or a row with a corrupt channel_id.
InitDbs ==
    {<<>>} \cup {<<NewRow(g, 2)>> : g \in Guilds}
           \cup {<<Row(Format(1), CorruptChannelId)>>}

\* A file that holds rows holds the schema; a fresh file does not yet.
Init ==
    /\ db \in InitDbs
    /\ main = "options"
    /\ migrated = (db # <<>>)
    /\ tasks = [t \in Tasks |-> IdleTask]
    /\ everBound = [g \in Guilds |->
                      get_notify_channel(db, g, TRUE)[1] = "Ok"]

Send(chan, text, ok) == [chan |-> chan, text |-> text, ok |-> ok]
\* A reply_mention call; its result is only logged.
Reply(text) == [text |-> text]

Finish(task, outcome) == [task EXCEPT !.pc = "done", !.outcome = outcome]
Abort(task, outcome) == [task EXCEPT !.pc = "panicked", !.outcome = outcome]

(* ------------------------------ startup -------------------------------- *)

\* Options::get().wrap_err(..)?: the configuration loads, or main returns
\* the error.
main_options ==
    /\ main = "options"
    /\ \E ok \in BOOLEAN : main' = IF ok THEN "db_init" ELSE "failed_options"
    /\ UNCHANGED <<db, tasks, everBound, migrated>>

\* A main that goes on to the client whatever db_init returned.
AfterDbInit_IgnoreError(ok) == "client"

\* db_init(&options.db_path).await?: on Err main returns it.
AfterDbInit(ok) == IF ok THEN "client" ELSE "failed_db_init"

\* db_init: connect (creating the file if missing), acquire a connection
\* and run the migrations; any of them failing is ok = FALSE and leaves the
\* file as it was.  Migrations already applied are not applied again.
db_init ==
    /\ main = "db_init"
    /\ \E ok \in BOOLEAN :
          /\ main' = AfterDbInit(ok)
          /\ migrated' = (migrated \/ ok)
    /\ UNCHANGED <<db, tasks, everBound>>

\* Client::builder(..).event_handler(handler).await?, then client.start():
\* from here on the gateway's events are dispatched to the handler.
main_client ==
    /\ main = "client"
    /\ \E ok \in BOOLEAN : main' = IF ok THEN "serving" ELSE "failed_client"
    /\ UNCHANGED <<db, tasks, everBound, migrated>>

\* The client dispatches events.
Dispatching == main = "serving"

\* The results a statement on notify_channel can have: it succeeds or the
\* store fails; without the schema it can only fail.
StoreAnswers == IF migrated THEN BOOLEAN ELSE {FALSE}

(* --------------------------- message handler --------------------------- *)

\* EventHandler::message up to its first await: the text is parsed; a
\* non-command returns, a parse error is replied to and the handler returns.
message_parse(t) ==
    /\ Dispatching
    /\ tasks[t].pc = "idle"
    /\ \E gid \in Guilds \cup {NoGuild}, content \in Contents :
          LET base == [IdleTask EXCEPT !.kind = "message", !.gid = gid,
                                       !.content = content]
              r == parse_set_channel(content)
          IN  tasks' = [tasks EXCEPT ![t] =
                IF r[1] = "None" THEN Finish(base, "ignored")
                ELSE IF r[1] = "Err"
                     THEN Finish([base EXCEPT !.replies = <<Reply(r[2])>>],
                                 "rejected")
                ELSE IF r[1] = "Panic" THEN Abort(base, "panic_channel_id_zero")
                ELSE [base EXCEPT !.pc = "say", !.cid = r[2]]]
    /\ UNCHANGED <<db, everBound, startup>>

\* A handler that goes on to the binding whatever the confirmation's result.
ProbeAccepted_Always(ok) == TRUE

\* The match on the confirmation's result: Ok(_) goes on to the binding.
ProbeAccepted(ok) == ok

\* The tasks other than t inside set_notify_channel for guild g.
InSet(t, g) ==
    {u \in Tasks \ {t} : tasks[u].gid = g /\ tasks[u].pc \in {"delete", "insert"}}

\* cid.say(confirmation): on failure the inaccessible-channel reply and
\* return; on success guild_id.expect, then set_notify_channel is entered.
message_say(t) ==
    /\ tasks[t].pc = "say"
    /\ \E ok \in BOOLEAN :
          LET me == tasks[t]
              sent == [me EXCEPT !.sends = Append(@, Send(me.cid, CONFIRMATION, ok))]
          IN  IF ~ProbeAccepted(ok)
              THEN tasks' = [tasks EXCEPT ![t] =
                     Finish([sent EXCEPT !.replies = <<Reply(INACCESSIBLE)>>],
                            "inaccessible")]
              ELSE IF me.gid = NoGuild
              THEN tasks' = [tasks EXCEPT ![t] = Abort(sent, "panic_no_guild_id")]
              ELSE tasks' = [u \in Tasks |->
                     IF u = t
                     THEN [sent EXCEPT !.pc = "delete",
                                       !.conc = InSet(t, me.gid) # {}]
                     ELSE IF u \in InSet(t, me.gid)
                     THEN [tasks[u] EXCEPT !.conc = TRUE]
                     ELSE tasks[u]]
    /\ UNCHANGED <<db, everBound, startup>>

\* set_notify_channel, first statement: DELETE the guild's rows.  A store
\* failure (~io) returns the error, which message logs.
set_notify_channel_delete(t) ==
    /\ tasks[t].pc = "delete"
    /\ \E io \in StoreAnswers :
          IF io
          THEN /\ db' = DeleteWhere(db, Format(tasks[t].gid))
               /\ tasks' = [tasks EXCEPT ![t].pc = "insert"]
          ELSE /\ db' = db
               /\ tasks' = [tasks EXCEPT ![t] = Finish(@, "delete_failed")]
    /\ UNCHANGED <<everBound, startup>>

\* set_notify_channel, second statement: INSERT the new row.
set_notify_channel_insert(t) ==
    /\ tasks[t].pc = "insert"
    /\ \E io \in StoreAnswers :
          LET me == tasks[t]
              r == InsertRow(db, NewRow(me.gid, me.cid))
          IN  IF io /\ r[1] = "Ok"
              THEN /\ db' = r[2]
                   /\ tasks' = [tasks EXCEPT ![t] = Finish(@, "bound")]
                   /\ everBound' = [everBound EXCEPT ![me.gid] = TRUE]
              ELSE /\ tasks' = [tasks EXCEPT ![t] = Finish(@, "insert_failed")]
                   /\ UNCHANGED <<db, everBound>>
    /\ UNCHANGED startup

(* ------------------------ member-removal handler ----------------------- *)

\* EventHandler::guild_member_removal up to the registry lookup.
guild_member_removal_get(t) ==
    /\ Dispatching
    /\ tasks[t].pc = "idle"
    /\ \E gid \in Guilds, user \in Users, io \in StoreAnswers :
          LET base == [IdleTask EXCEPT !.kind = "removal", !.gid = gid,
                                       !.user = user]
              r == get_notify_channel(db, gid, io)
          IN  tasks' = [tasks EXCEPT ![t] =
                IF r[1] = "Err"
                THEN Finish(base, IF r[2] = "Io" THEN "lookup_failed" ELSE "lookup_miss")
                ELSE IF r[1] = "Panic" THEN Abort(base, "panic_malformed_channel_id")
                ELSE [base EXCEPT !.pc = "channels", !.cid = r[2]]]
    /\ UNCHANGED <<db, everBound, startup>>

\* guild_id.channels(): the listing fails, or returns the guild's current
\* channels; guild_channels.get(&notify_cid)...unwrap() panics on a channel
\* that is not among them.
guild_member_removal_channels(t) ==
    /\ tasks[t].pc = "channels"
    /\ \E listed \in BOOLEAN, guild_channels \in SUBSET Channels :
          tasks' = [tasks EXCEPT ![t] =
                IF ~listed THEN Finish(@, "listing_failed")
                ELSE IF tasks[t].cid \notin guild_channels
                     THEN Abort(@, "panic_stale_channel")
                ELSE [@ EXCEPT !.pc = "say_left"]]
    /\ UNCHANGED <<db, everBound, startup>>

\* to_notif.say(content): the announcement, delivered or not.
guild_member_removal_say(t) ==
    /\ tasks[t].pc = "say_left"
    /\ \E ok \in BOOLEAN :
          LET me == tasks[t]
          IN  tasks' = [tasks EXCEPT ![t] =
                Finish([me EXCEPT !.sends = Append(@, Send(me.cid, LeftText(me.user), ok))],
                       IF ok THEN "announced" ELSE "announce_failed")]
    /\ UNCHANGED <<db, everBound, startup>>

Handle(t) ==
    \/ message_parse(t)
    \/ message_say(t)
    \/ set_notify_channel_delete(t)
    \/ set_notify_channel_insert(t)
    \/ guild_member_removal_get(t)
    \/ guild_member_removal_channels(t)
    \/ guild_member_removal_say(t)

Next ==
    \/ main_options
    \/ db_init
    \/ main_client
    \/ \E t \in Tasks : Handle(t)

Spec == Init /\ [][Next]_vars

(* ------------------------- registry contract --------------------------- *)

\* get(g) of the registry contract: what get_notify_channel returns for
\* guild g on the current table when the store answers.
GetIn(rows, g) == get_notify_channel(rows, g, TRUE)
Get(g) == GetIn(db, g)

NotFound == <<"Err", "RowNotFound">>

\* Task t has entered set_notify_channel (it is in it, or has returned).
SetOutcomes == {"delete_failed", "insert_failed", "bound"}
EnteredSet(t) ==
    tasks[t].pc \in {"delete", "insert"} \/ tasks[t].outcome \in SetOutcomes
SetFinished(t) == tasks[t].outcome \in SetOutcomes

\* C1: in every reachable state the table holds at most one row per guild
\* id, whatever the interleaving of the DELETE and INSERT steps of
\* concurrent set_notify_channel calls.
C1_AtMostOneBindingPerGuild ==
    \A i \in 1..Len(db), j \in 1..Len(db) :
        i # j => db[i].guild_id # db[j].guild_id

\* Two sets of one guild have both run their DELETE before either INSERT,
\* one has inserted, and the other's INSERT has then been refused.
C1_Witness ==
    \E a \in Tasks, b \in Tasks :
        /\ a # b
        /\ tasks[a].gid = tasks[b].gid
        /\ tasks[a].outcome = "bound" /\ tasks[a].conc
        /\ tasks[b].outcome = "insert_failed" /\ tasks[b].conc
        /\ tasks[a].cid # tasks[b].cid
        /\ Get(tasks[a].gid) = <<"Ok", tasks[a].cid>>

\* C2 (as claimed): a lookup of a guild that has had a binding stored
\* never misses, also when it runs between the DELETE and the INSERT of a
\* concurrent set_notify_channel of that guild.
C2_GetNeverMissesOnceBound ==
    [][\A t \in Tasks :
          (/\ tasks[t].pc = "idle"
           /\ tasks'[t].kind = "removal"
           /\ everBound[tasks'[t].gid]
           /\ \E u \in Tasks : /\ tasks[u].pc = "insert"
                                /\ tasks[u].gid = tasks'[t].gid)
          => tasks'[t].outcome # "lookup_miss"]_vars

\* C3 (as claimed): once two overlapping set calls of one guild have both
\* returned, one of them with Ok, and no other set of that guild has run,
\* get returns the channel of one of the two.
C3_ConcurrentSetsLeaveOneOfTheTwo ==
    \A a \in Tasks, b \in Tasks :
        (/\ a # b
         /\ SetFinished(a) /\ SetFinished(b)
         /\ tasks[a].gid = tasks[b].gid
         /\ tasks[a].conc /\ tasks[b].conc
         /\ tasks[a].cid # tasks[b].cid
         /\ "bound" \in {tasks[a].outcome, tasks[b].outcome}
         /\ \A u \in Tasks \ {a, b} :
               ~(EnteredSet(u) /\ tasks[u].gid = tasks[a].gid))
        => Get(tasks[a].gid) \in {<<"Ok", tasks[a].cid>>, <<"Ok", tasks[b].cid>>}

\* C4: when a set call of guild g that overlapped no other set of g returns
\* Ok after an earlier set of g had returned Ok, get(g) returns the later
\* call's channel; and no step of a set call changes another guild's rows.
C4_SequentialSetsLastWins ==
    [][\A t \in Tasks :
          /\ (/\ tasks[t].pc = "insert" /\ tasks'[t].outcome = "bound"
               /\ ~tasks[t].conc
               /\ \E a \in Tasks \ {t} : /\ tasks[a].outcome = "bound"
                                          /\ tasks[a].gid = tasks[t].gid)
              => GetIn(db', tasks[t].gid) = <<"Ok", tasks[t].cid>>
          /\ (tasks[t].pc \in {"delete", "insert"} /\ tasks'[t] # tasks[t])
              => \A h \in Guilds \ {tasks[t].gid} :
                    RowsWhere(db', Format(h)) = RowsWhere(db, Format(h))]_vars

\* Guild g was set to one channel, then to another, and get returns the
\* second; another guild holds a binding throughout.
C4_Witness ==
    \E a \in Tasks, b \in Tasks :
        /\ tasks[a].outcome = "bound" /\ tasks[b].outcome = "bound"
        /\ tasks[a].gid = tasks[b].gid /\ tasks[a].cid # tasks[b].cid
        /\ ~tasks[a].conc /\ ~tasks[b].conc
        /\ Get(tasks[b].gid) = <<"Ok", tasks[b].cid>>
        /\ \E h \in Guilds \ {tasks[b].gid} : Get(h)[1] = "Ok"

\* The confirmation sent by task t was delivered.
ProbeOk(t) == tasks[t].sends = <<Send(tasks[t].cid, CONFIRMATION, TRUE)>>
ProbeFailed(t) == tasks[t].sends = <<Send(tasks[t].cid, CONFIRMATION, FALSE)>>

\* C5: a task is in (or past) set_notify_channel only after its confirmation
\* was delivered to the channel it binds; a task whose confirmation failed
\* has replied with the inaccessible-channel text and returned, and the step
\* in which it did left the table as it was; the table changes only in a
\* step of a task inside set_notify_channel, and a row it gains is that
\* task's (guild, probed channel).
C5_RegistryMutatedOnlyAfterProbe ==
    /\ [](\A t \in Tasks :
            /\ EnteredSet(t) => ProbeOk(t) /\ tasks[t].replies = <<>>
            /\ (tasks[t].kind = "message" /\ tasks[t].sends # <<>> /\ ~ProbeOk(t))
                => /\ ProbeFailed(t)
                   /\ tasks[t].pc = "done"
                   /\ Len(tasks[t].replies) = 1
                   /\ tasks[t].replies[1].text = INACCESSIBLE)
    /\ [][/\ \A t \in Tasks :
              (tasks[t].pc = "say" /\ ProbeFailed(t)') => db' = db
          /\ (db' # db) =>
               (\E t \in Tasks :
                   /\ tasks[t].pc \in {"delete", "insert"}
                   /\ tasks'[t] # tasks[t]
                   /\ ProbeOk(t)
                   /\ \A i \in 1..Len(db') :
                         ((\A j \in 1..Len(db) : db[j] # db'[i])
                          => (db'[i] = Row(Format(tasks[t].gid),
                                          Format(tasks[t].cid)))))]_vars

\* A command for a bound guild failed its probe and was answered, and the
\* guild's binding is still there.
C5_Witness ==
    \E t \in Tasks :
        /\ ProbeFailed(t) /\ tasks[t].pc = "done"
        /\ tasks[t].gid \in Guilds
        /\ Get(tasks[t].gid)[1] = "Ok"
        /\ Get(tasks[t].gid) # <<"Ok", tasks[t].cid>>
        /\ \E u \in Tasks : tasks[u].outcome = "bound"

(* --------------------------- command surface ---------------------------- *)

HasPrefix(content) == StripPrefix(content, COMMAND_PREFIX)[1] = "Some"

\* The text after the prefix, and after the subcommand.
AfterPrefix(content) == StripPrefix(content, COMMAND_PREFIX)[2]
HasSubcommand(content) ==
    HasPrefix(content) /\ StripPrefix(AfterPrefix(content), NOTIFCHAN)[1] = "Some"
Argument(content) == StripPrefix(AfterPrefix(content), NOTIFCHAN)[2]

\* The number a string of decimal digits denotes.
RECURSIVE Denotes(_)
Denotes(s) ==
    IF s = <<>> THEN 0
    ELSE 10 * Denotes(SubSeq(s, 1, Len(s) - 1)) + DigitVal(s[Len(s)])

\* The argument is a positive, non-zero, base-10 unsigned channel id.
IsChannelIdText(s) ==
    /\ s # <<>>
    /\ \A i \in 1..Len(s) : IsDigit(s[i])
    /\ Denotes(s) \in 1..IdMax

\* The handler of task t has returned normally, having replied once with
\* text, sent nothing and not touched the registry.
RepliedOnce(t, text) ==
    /\ tasks[t].pc = "done"
    /\ Len(tasks[t].replies) = 1
    /\ tasks[t].replies[1].text = text
    /\ tasks[t].sends = <<>>
    /\ ~EnteredSet(t)

\* C6 (as claimed): a notifchan command whose argument is no positive
\* base-10 channel id ends with the "channel id invalid" reply; it yields
\* no channel id and never reaches the probe send.
C6_InvalidArgumentRejected ==
    \A t \in Tasks :
        (/\ tasks[t].kind = "message"
         /\ HasSubcommand(tasks[t].content)
         /\ ~IsChannelIdText(Argument(tasks[t].content)))
        => /\ tasks[t].outcome = "rejected"
           /\ tasks[t].cid = 0
           /\ RepliedOnce(t, CID_INVALID)

\* C7 (as claimed): a command that is a user-input error (subcommand
\* missing, or channel id invalid or zero) gets exactly one reply (the usage
\* text, respectively the invalid-id text), no send and no registry
\* mutation, and the handler returns normally.
C7_UserInputErrorRepliesOnce ==
    \A t \in Tasks :
        (tasks[t].kind = "message" /\ HasPrefix(tasks[t].content))
        => /\ ~HasSubcommand(tasks[t].content) => RepliedOnce(t, USAGE)
           /\ (/\ HasSubcommand(tasks[t].content)
               /\ ~IsChannelIdText(Argument(tasks[t].content)))
              => RepliedOnce(t, CID_INVALID)

\* C8: a message whose text does not start with the command prefix ends
\* the handler at once with no reply and no send, and the step handling it
\* leaves the table as it was.
C8_NonCommandHasNoEffect ==
    /\ [](\A t \in Tasks :
            (tasks[t].kind = "message" /\ ~HasPrefix(tasks[t].content))
            => /\ tasks[t].pc = "done"
               /\ tasks[t].outcome = "ignored"
               /\ tasks[t].sends = <<>>
               /\ tasks[t].replies = <<>>)
    /\ [][\A t \in Tasks :
            (/\ tasks'[t] # tasks[t]
             /\ tasks'[t].kind = "message"
             /\ ~HasPrefix(tasks'[t].content))
            => db' = db]_vars

\* A message that only nearly starts with the prefix ("!abs" without its
\* space) was ignored while a binding is stored.
C8_Witness ==
    \E t \in Tasks :
        /\ tasks[t].kind = "message"
        /\ tasks[t].content = <<"!", "a", "b", "s">> \o NOTIFCHAN \o <<"2">>
        /\ tasks[t].outcome = "ignored"
        /\ db # <<>>

\* C9: a well-formed command "!abs notifchan <c>" from guild G whose
\* confirmation was delivered goes on to set_notify_channel (it is not
\* rejected, ignored or aborted); and in the step in which that set returns
\* Ok, get(G) comes to return c, the one send made is the delivered
\* confirmation into c, and no reply was made.
C9_AcceptedCommandBinds ==
    /\ [](\A t \in Tasks :
            (/\ tasks[t].kind = "message"
             /\ tasks[t].gid \in Guilds
             /\ HasSubcommand(tasks[t].content)
             /\ IsChannelIdText(Argument(tasks[t].content)))
            => /\ tasks[t].cid = Denotes(Argument(tasks[t].content))
               /\ \/ tasks[t].pc = "say"
                  \/ ProbeFailed(t) /\ tasks[t].outcome = "inaccessible"
                  \/ ProbeOk(t) /\ EnteredSet(t))
    /\ [][\A t \in Tasks :
            (tasks[t].pc = "insert" /\ tasks'[t].outcome = "bound")
            => /\ IsChannelIdText(Argument(tasks[t].content))
               /\ GetIn(db', tasks[t].gid)
                    = <<"Ok", Denotes(Argument(tasks[t].content))>>
               /\ tasks'[t].sends
                    = <<Send(Denotes(Argument(tasks[t].content)), CONFIRMATION, TRUE)>>
               /\ tasks'[t].replies = <<>>]_vars

\* A command rebound a guild that had another binding, here to the largest
\* channel id.
C9_Witness ==
    \E t \in Tasks :
        /\ tasks[t].outcome = "bound"
        /\ tasks[t].cid = IdMax
        /\ Get(tasks[t].gid) = <<"Ok", IdMax>>
        /\ \E u \in Tasks \ {t} : /\ tasks[u].outcome = "bound"
                                   /\ tasks[u].gid = tasks[t].gid
                                   /\ tasks[u].cid # IdMax

\* The announcement: display name, identifier, "has left the server".
Announcement(user) ==
    <<user.name, " (">> \o Format(user.id) \o <<") has left the server">>

\* C10: a member-removal event whose lookup finds the guild bound to c, and
\* whose channel listing succeeds and holds c, makes exactly one send call,
\* to c, with the announcement text, and no reply; no step of the handler
\* changes the table.
C10_RemovalAnnouncesOnce ==
    /\ [](\A t \in Tasks :
            tasks[t].kind = "removal"
            => /\ tasks[t].replies = <<>>
               /\ tasks[t].pc \in {"channels", "say_left"} => tasks[t].sends = <<>>
               /\ tasks[t].outcome \in {"announced", "announce_failed"}
                  => /\ Len(tasks[t].sends) = 1
                     /\ tasks[t].sends[1].chan = tasks[t].cid
                     /\ tasks[t].sends[1].text = Announcement(tasks[t].user))
    /\ [][\A t \in Tasks :
            /\ (tasks'[t] # tasks[t] /\ tasks'[t].kind = "removal") => db' = db
            /\ (/\ tasks[t].pc = "idle" /\ tasks'[t].kind = "removal"
                /\ tasks'[t].outcome # "lookup_failed"
                /\ \E i \in 1..Len(db) :
                      /\ db[i].guild_id = Format(tasks'[t].gid)
                      /\ IsChannelIdText(db[i].channel_id))
               => /\ tasks'[t].pc = "channels"
                  /\ \E i \in 1..Len(db) :
                        db[i] = Row(Format(tasks'[t].gid), Format(tasks'[t].cid))
            /\ (tasks[t].pc = "channels" /\ tasks'[t] # tasks[t]
                /\ tasks'[t].outcome \notin {"listing_failed", "panic_stale_channel"})
               => tasks'[t].pc = "say_left"
            /\ (tasks[t].pc = "say_left" /\ tasks'[t] # tasks[t])
               => tasks'[t].outcome \in {"announced", "announce_failed"}]_vars

\* A removal in a bound guild was announced in the bound channel.
C10_Witness ==
    \E t \in Tasks :
        /\ tasks[t].kind = "removal"
        /\ tasks[t].outcome = "announced"
        /\ Get(tasks[t].gid) = <<"Ok", tasks[t].cid>>
        /\ tasks[t].sends = <<Send(tasks[t].cid, Announcement(tasks[t].user), TRUE)>>

(* ------------------------- notification path --------------------------- *)

\* The table holds no row for guild g.
NoRowFor(rows, g) == \A i \in 1..Len(rows) : rows[i].guild_id # Format(g)

\* C11: for a guild with no stored row get returns NotFound (no default
\* channel), and a member-removal event for it ends the handler normally in
\* its first step with no send and no reply, the table as it was.
C11_UnboundGuildDropsRemoval ==
    /\ [](\A g \in Guilds : NoRowFor(db, g) => Get(g) = NotFound)
    /\ [][\A t \in Tasks :
            (/\ tasks[t].pc = "idle"
             /\ tasks'[t].kind = "removal"
             /\ NoRowFor(db, tasks'[t].gid))
            => /\ tasks'[t].pc = "done"
               /\ tasks'[t].outcome \in {"lookup_miss", "lookup_failed"}
               /\ tasks'[t].cid = 0
               /\ tasks'[t].sends = <<>>
               /\ tasks'[t].replies = <<>>
               /\ db' = db]_vars

\* A removal in an unbound guild was dropped as a lookup miss while
\* another guild holds a binding.
C11_Witness ==
    \E t \in Tasks :
        /\ tasks[t].kind = "removal"
        /\ tasks[t].outcome = "lookup_miss"
        /\ NoRowFor(db, tasks[t].gid)
        /\ db # <<>>

\* C12 (as claimed): a member-removal event whose bound channel is no
\* longer among the guild's channels is dropped: the handler makes no send
\* and returns normally, it does not abort.
C12_StaleChannelDropped ==
    [][\A t \in Tasks :
          tasks[t].pc = "channels" => tasks'[t].pc # "panicked"]_vars

\* C13 (as claimed): a registry operation inside a handler that meets a
\* storage failure (the store not answering, or a stored channel id that
\* does not parse) ends the handler by a normal return with the event
\* dropped; the handler never aborts in it.
C13_StorageFailureDropsEvent ==
    [][\A t \in Tasks :
          (\/ tasks[t].pc = "idle" /\ tasks'[t].kind = "removal"
           \/ tasks[t].pc \in {"delete", "insert"})
          => tasks'[t].pc # "panicked"]_vars

\* C14 (as claimed): in every state in which no set of guild g is between
\* its DELETE and its INSERT, a guild that has had a binding stored still
\* has one, also after a set of g that returned a storage error.
C14_BindingNeverDeleted ==
    \A g \in Guilds :
        (/\ everBound[g]
         /\ \A t \in Tasks : ~(tasks[t].pc = "insert" /\ tasks[t].gid = g))
        => Get(g)[1] = "Ok"

(* ------------------------------ startup -------------------------------- *)

\* C15: no event is handled unless the client is dispatching, and the
\* client is only built and started with the schema in place: a db_init
\* that fails makes main return, after which no event is ever handled.
C15_SchemaBeforeEvents ==
    /\ main \in {"client", "serving"} => migrated
    /\ \A t \in Tasks : tasks[t].pc # "idle" => main = "serving" /\ migrated
    /\ main = "db_init" => \A t \in Tasks : tasks[t].pc = "idle"

\* On a fresh database file the schema was set up, and a command then
\* stored the first binding.
C15_Witness ==
    /\ main = "serving"
    /\ migrated
    /\ \E t \in Tasks : tasks[t].outcome = "bound" /\ Len(db) = 1
    /\ \A g \in Guilds : everBound[g] <=> Get(g)[1] = "Ok"

(* ------------------------- identifier encoding -------------------------- *)

\* A table holding the one row that set(g, c) stores.
Stored(g, c) == <<NewRow(g, c)>>

\* C16: the stored encoding round-trips the whole unsigned range, the
\* upper half included: for every guild id g and every non-zero channel id
\* c, a table holding what set(g, c) stores answers get(g) with exactly c
\* and has no binding under any other guild id; and whenever a
\* set_notify_channel(g, c) of the handler returns Ok, get(g) is c on the
\* table it leaves and the rows of the other guilds are as they were.
C16_EncodingRoundTrips ==
    /\ \A g \in 1..IdMax, c \in 1..IdMax :
          /\ GetIn(Stored(g, c), g) = <<"Ok", c>>
          /\ \A h \in 1..IdMax : h # g => GetIn(Stored(g, c), h) = NotFound
    /\ [][\A t \in Tasks :
            (tasks[t].pc = "insert" /\ tasks'[t].outcome = "bound")
            => /\ GetIn(db', tasks[t].gid) = <<"Ok", tasks[t].cid>>
               /\ \A h \in 1..IdMax :
                     h # tasks[t].gid => GetIn(db', h) = GetIn(db, h)]_vars

\* A binding of the largest guild id to the largest channel id, both in
\* the upper half of the range, was stored and is read back.
C16_Witness ==
    \E t \in Tasks :
        /\ tasks[t].outcome = "bound"
        /\ tasks[t].gid = IdMax
        /\ tasks[t].cid = IdMax
        /\ IdMax > Pow2(IdBits - 1) - 1
        /\ Get(IdMax) = <<"Ok", IdMax>>
        /\ Get(1) = NotFound

(* ------------------------ messages without guild ------------------------ *)

\* C17: the handler of a message that carries no guild id and whose text
\* is a well-formed set-channel command never aborts and never enters
\* set_notify_channel.
C17_NoGuildMessageNeverAborts ==
    \A t \in Tasks :
        (/\ tasks[t].kind = "message"
         /\ tasks[t].gid = NoGuild
         /\ HasSubcommand(tasks[t].content)
         /\ IsChannelIdText(Argument(tasks[t].content)))
        => tasks[t].pc # "panicked" /\ ~EnteredSet(t)

====
